---- MODULE Spec2Model ----
(***************************************************************************)
(* EventMetricProducer (statsd/src/metrics/EventMetricProducer.cpp).       *)
(*                                                                         *)
(* The producer records every matched log event whose condition is met,   *)
(* either eagerly encoded into the pending buffer mProto (raw mode) or     *)
(* grouped by atom into mAggregatedAtoms (atom aggregation), and writes    *)
(* the accumulated data into the caller's stream on onDumpReport.          *)
(* All handlers run under the lock of the metric, so each is one step.     *)
(***************************************************************************)
EXTENDS Integers, Sequences, FiniteSets, TLC

(***************************************************************************)
(* Bounds of the model.                                                    *)
(***************************************************************************)
\* most events held by the store at once
MaxEvents == 3
\* most calls of dropData
MaxDrops == 2

(***************************************************************************)
(* Field numbers of the report.                                            *)
(***************************************************************************)
FIELD_ID_ID == 1
FIELD_ID_EVENT_METRICS == 4
FIELD_ID_IS_ACTIVE == 14
FIELD_ID_DATA == 1
FIELD_ID_ELAPSED_TIMESTAMP_NANOS == 1
FIELD_ID_ATOMS == 2
FIELD_ID_AGGREGATED_ATOM == 4
FIELD_ID_ATOM == 1
FIELD_ID_ATOM_TIMESTAMPS == 2

\* metric.id() of the configured metric
mMetricId == 7
\* sizeof(FieldValue), the fixed cost of one field value of a key
SizeofFieldValue == 40
\* sizeof(int64_t)
SizeofInt64 == 8
\* granularity of the timestamp truncation policy (time unit of the model)
TruncationGranularity == 100

(***************************************************************************)
(* Inputs: the log events delivered to the producer.                       *)
(***************************************************************************)
LogEvent(tag, values, ts, trunc) ==
    [tag |-> tag, values |-> values, ts |-> ts, truncate |-> trunc]

LogEvents ==
    { LogEvent(5, <<"x">>, 100, FALSE),
      LogEvent(5, <<"x">>, 200, FALSE),
      LogEvent(5, <<"y">>, 150, FALSE),
      LogEvent(6, <<"x">>, 250, TRUE) }

\* two log events of different atoms, one with a truncated timestamp
LogEventsTraced ==
    { LogEvent(5, <<"x">>, 100, FALSE),
      LogEvent(6, <<"y">>, 250, TRUE) }

\* log events of which one atom has no field values
LogEventsNoValues ==
    { LogEvent(5, <<"x">>, 100, FALSE),
      LogEvent(5, <<"x">>, 200, FALSE),
      LogEvent(6, <<>>, 150, FALSE),
      LogEvent(6, <<>>, 250, TRUE) }

NoEvent == LogEvent(0, <<>>, 0, FALSE)

\* indices the condition of the metric can resolve to on a config update
ConditionIndices == {0}

\* the arguments of onMatchedLogEventInternalLocked beside condition and event
MatchedArgs(matcherIndex, eventKey, conditionKey, statePrimaryKeys) ==
    [matcherIndex |-> matcherIndex, eventKey |-> eventKey,
     conditionKey |-> conditionKey, statePrimaryKeys |-> statePrimaryKeys]

NoArgs == MatchedArgs(0, "", "", "")

\* the surroundings an event is delivered in: the other arguments of the
\* call, and what isActiveLocked() returns at the call
Deliveries ==
    { [args |-> MatchedArgs(0, "", "", ""), isActive |-> TRUE],
      [args |-> MatchedArgs(1, "uid", "link", "screen"), isActive |-> FALSE] }

(***************************************************************************)
(* ProtoOutputStream: a stream is the sequence of the tokens written to    *)
(* it; start and end delimit a nested message.                             *)
(***************************************************************************)
Token(k, id, num, str, sub) ==
    [k |-> k, id |-> id, num |-> num, str |-> str, sub |-> sub]

ProtoStart(id) == Token("start", id, 0, "", <<>>)
ProtoEnd(id) == Token("end", id, 0, "", <<>>)
ProtoInt64(id, v) == Token("int64", id, v, "", <<>>)
ProtoBool(id, b) == Token("bool", id, IF b THEN 1 ELSE 0, "", <<>>)
ProtoString(id, s) == Token("string", id, 0, s, <<>>)
ProtoBytes(id, buf) == Token("bytes", id, 0, "", buf)

VarintSize(v) == IF v < 128 THEN 1 ELSE 2

RECURSIVE ProtoBytesWritten(_)
TokenSize(t) ==
    CASE t.k = "start" -> 2
      [] t.k = "end" -> 0
      [] t.k = "int64" -> 1 + VarintSize(t.num)
      [] t.k = "bool" -> 2
      [] t.k = "string" -> 2 + Len(t.str)
      [] t.k = "bytes" -> 2 + ProtoBytesWritten(t.sub)

ProtoBytesWritten(p) ==
    IF p = <<>> THEN 0
    ELSE TokenSize(Head(p)) + ProtoBytesWritten(Tail(p))

ProtoSize(p) == ProtoBytesWritten(p)

\* the reader of a stream hands its content out in chunks of one token
RECURSIVE serializeProtoLocked(_)
serializeProtoLocked(p) ==
    IF p = <<>> THEN <<>>
    ELSE <<Head(p)>> \o serializeProtoLocked(Tail(p))

writeFieldValueTreeToStream(tag, values) ==
    <<ProtoStart(tag)>>
    \o [i \in 1..Len(values) |-> ProtoString(i, values[i])]
    \o <<ProtoEnd(tag)>>

LogEventToProto(event) == writeFieldValueTreeToStream(event.tag, event.values)

truncateTimestampIfNecessary(event) ==
    IF event.truncate
    THEN (event.ts \div TruncationGranularity) * TruncationGranularity
    ELSE event.ts

AtomDimensionKey(event) == [tag |-> event.tag, values |-> event.values]

(***************************************************************************)
(* State.                                                                  *)
(***************************************************************************)
VARIABLES
    eventFeed,              \* the log events the matchers deliver in this run
    tracing,                \* history: whether the record of a call keeps what
                            \* the store does not depend on
    mUseAtomAggregation,    \* the mode, read from the boot flag
    mProto,                 \* raw mode: the pending buffer
    mAggregatedAtoms,       \* grouped mode: AtomDimensionKey -> timestamps
    mCondition,             \* last condition stored by onConditionChanged
    mConditionTrackerIndex, \* index of the condition tracker
    bucketDropped,          \* StatsdStats: buckets dropped of mMetricId
    accepted,               \* history: events accepted since the last emptying
    dropCalls,              \* history: number of dropData calls
    eraseDumps,             \* history: erasing dumps made in a row, up to 2
    lastCall                \* history: the last call, see Call

vars == <<eventFeed, tracing, mUseAtomAggregation, mProto, mAggregatedAtoms, mCondition,
          mConditionTrackerIndex, bucketDropped, accepted, dropCalls, eraseDumps,
          lastCall>>

EmptyMap == [k \in {} |-> <<>>]

\* the record of a call: its arguments, what it wrote and returned, and the
\* buffer, the map and the mode as the call found them
Call(op, event, condition, erase, out, ret) ==
    [op |-> op, event |-> event, condition |-> condition, erase |-> erase,
     out |-> out, ret |-> ret,
     before |-> [proto |-> mProto, atoms |-> mAggregatedAtoms,
                 aggregation |-> mUseAtomAggregation],
     \* onMatchedLogEvent: the other arguments, and isActiveLocked() at the call
     args |-> NoArgs, isActive |-> FALSE,
     \* onConfigUpdated: metric.has_condition(), and the steps attempted, each
     \* with its outcome
     hasCondition |-> FALSE, steps |-> <<>>,
     \* onDumpReport: the order the map was iterated in, and whether the call
     \* directly follows a dump that did not erase
     order |-> <<>>, afterDump |-> FALSE]

\* mutant: the timestamps of the entries are not counted
RECURSIVE AggregatedByteSizeOfKeys(_, _)
AggregatedByteSizeOfKeys(m, keys) ==
    IF keys = {} THEN 0
    ELSE LET k == CHOOSE x \in keys : TRUE
         IN SizeofFieldValue * Len(k.values)
            + AggregatedByteSizeOfKeys(m, keys \ {k})

RECURSIVE AggregatedByteSize(_, _)
AggregatedByteSize(m, keys) ==
    IF keys = {} THEN 0
    ELSE LET k == CHOOSE x \in keys : TRUE
         IN SizeofFieldValue * Len(k.values)
            + SizeofInt64 * Len(m[k])
            + AggregatedByteSize(m, keys \ {k})

\* mutant: the bytes of the pending buffer are counted in both modes
byteSizeOfBoth(proto, atoms) ==
    IF mUseAtomAggregation
    THEN AggregatedByteSize(atoms, DOMAIN atoms) + ProtoBytesWritten(proto)
    ELSE ProtoBytesWritten(proto)

\* byteSizeLocked, of a given buffer and map
byteSizeOf(proto, atoms) ==
    IF mUseAtomAggregation
    THEN AggregatedByteSize(atoms, DOMAIN atoms)
    ELSE ProtoBytesWritten(proto)

byteSizeLocked == byteSizeOf(mProto, mAggregatedAtoms)

Constructed ==
    /\ mUseAtomAggregation \in BOOLEAN
    /\ mProto = <<>>
    /\ mAggregatedAtoms = EmptyMap
    /\ mCondition = "kUnknown"
    /\ mConditionTrackerIndex = -1
    /\ bucketDropped = 0
    /\ accepted = <<>>
    /\ dropCalls = 0
    /\ eraseDumps = 0
    /\ lastCall = Call("init", NoEvent, FALSE, FALSE, <<>>, TRUE)

Init == eventFeed = LogEvents /\ tracing = FALSE /\ Constructed

InitNoValues == eventFeed = LogEventsNoValues /\ tracing = FALSE /\ Constructed

InitTraced == eventFeed = LogEventsTraced /\ tracing = TRUE /\ Constructed

(***************************************************************************)
(* onMatchedLogEventInternalLocked                                         *)
(***************************************************************************)
\* mutant: the condition is not consulted
AdmittedAlways(condition) == TRUE

\* mutant: the condition stored by onConditionChanged is consulted as well
AdmittedWhenConditionStored(condition) == condition /\ mCondition = "kTrue"

\* if (!condition) return;
Admitted(condition) == condition

RawData(elapsedTimeNs, event) ==
    <<ProtoStart(FIELD_ID_DATA),
      ProtoInt64(FIELD_ID_ELAPSED_TIMESTAMP_NANOS, elapsedTimeNs),
      ProtoStart(FIELD_ID_ATOMS)>>
    \o LogEventToProto(event)
    \o <<ProtoEnd(FIELD_ID_ATOMS), ProtoEnd(FIELD_ID_DATA)>>

\* mutant: the new data is put in front of the buffer
RecordRawInFront(proto, elapsedTimeNs, event) == RawData(elapsedTimeNs, event) \o proto

RecordRaw(proto, elapsedTimeNs, event) == proto \o RawData(elapsedTimeNs, event)

\* mutant: the timestamp replaces the sequence of the key
PushBackReplacing(m, key, elapsedTimeNs) ==
    [k \in DOMAIN m \cup {key} |-> IF k = key THEN <<elapsedTimeNs>> ELSE m[k]]

\* mutant: the timestamp that creates an entry is not pushed to it
PushBackToExisting(m, key, elapsedTimeNs) ==
    [k \in DOMAIN m \cup {key} |->
        IF k = key
        THEN (IF key \in DOMAIN m THEN Append(m[key], elapsedTimeNs) ELSE <<>>)
        ELSE m[k]]

PushBack(m, key, elapsedTimeNs) ==
    [k \in DOMAIN m \cup {key} |->
        IF k = key
        THEN Append(IF key \in DOMAIN m THEN m[key] ELSE <<>>, elapsedTimeNs)
        ELSE m[k]]

\* mutant: an accepted event is recorded in the buffer and in the map
onMatchedLogEventInternalLockedInBoth(matcherIndex, eventKey, conditionKey, condition, event, statePrimaryKeys, isActive) ==
    /\ lastCall' =
          IF condition /\ tracing
          THEN [Call("onMatchedLogEvent", event, condition, FALSE, <<>>, TRUE)
                   EXCEPT !.args = MatchedArgs(matcherIndex, eventKey, conditionKey,
                                               statePrimaryKeys),
                          !.isActive = isActive]
          ELSE Call("onMatchedLogEvent", IF condition THEN event ELSE NoEvent,
                    condition, FALSE, <<>>, TRUE)
    /\ eraseDumps' = 0
    /\ IF ~Admitted(condition)
       THEN UNCHANGED <<mProto, mAggregatedAtoms, accepted>>
       ELSE LET elapsedTimeNs == truncateTimestampIfNecessary(event)
            IN /\ accepted' = Append(accepted, event)
               /\ mProto' = RecordRaw(mProto, elapsedTimeNs, event)
               /\ mAggregatedAtoms' =
                      PushBack(mAggregatedAtoms, AtomDimensionKey(event), elapsedTimeNs)
    /\ UNCHANGED <<eventFeed, tracing, mUseAtomAggregation, mCondition, mConditionTrackerIndex,
                   bucketDropped, dropCalls>>

onMatchedLogEventInternalLocked(matcherIndex, eventKey, conditionKey, condition, event, statePrimaryKeys, isActive) ==
    /\ lastCall' =
          IF condition /\ tracing
          THEN [Call("onMatchedLogEvent", event, condition, FALSE, <<>>, TRUE)
                   EXCEPT !.args = MatchedArgs(matcherIndex, eventKey, conditionKey,
                                               statePrimaryKeys),
                          !.isActive = isActive]
          ELSE Call("onMatchedLogEvent", IF condition THEN event ELSE NoEvent,
                    condition, FALSE, <<>>, TRUE)
    /\ eraseDumps' = 0
    /\ IF ~Admitted(condition)
       THEN UNCHANGED <<mProto, mAggregatedAtoms, accepted>>
       ELSE LET elapsedTimeNs == truncateTimestampIfNecessary(event)
            IN /\ accepted' = Append(accepted, event)
               /\ IF ~mUseAtomAggregation
                  THEN /\ mProto' = RecordRaw(mProto, elapsedTimeNs, event)
                       /\ UNCHANGED mAggregatedAtoms
                  ELSE /\ mAggregatedAtoms' =
                              PushBack(mAggregatedAtoms, AtomDimensionKey(event),
                                       elapsedTimeNs)
                       /\ UNCHANGED mProto
    /\ UNCHANGED <<eventFeed, tracing, mUseAtomAggregation, mCondition, mConditionTrackerIndex,
                   bucketDropped, dropCalls>>

OnMatchedLogEvent ==
    \E condition \in BOOLEAN, event \in eventFeed, delivery \in Deliveries :
        /\ Admitted(condition) => Len(accepted) < MaxEvents
        /\ onMatchedLogEventInternalLocked(
              delivery.args.matcherIndex, delivery.args.eventKey,
              delivery.args.conditionKey, condition, event,
              delivery.args.statePrimaryKeys, delivery.isActive)

(***************************************************************************)
(* onDumpReportLocked                                                      *)
(***************************************************************************)
\* the orders in which the unordered map can be iterated
IterationOrders(m) ==
    { o \in [1..Cardinality(DOMAIN m) -> DOMAIN m] :
        \A i, j \in DOMAIN o : o[i] = o[j] => i = j }

RECURSIVE WriteTimestamps(_)
WriteTimestamps(elapsedTimestampsNs) ==
    IF elapsedTimestampsNs = <<>> THEN <<>>
    ELSE <<ProtoInt64(FIELD_ID_ATOM_TIMESTAMPS, Head(elapsedTimestampsNs))>>
         \o WriteTimestamps(Tail(elapsedTimestampsNs))

AggregatedData(atomDimensionKey, elapsedTimestampsNs) ==
    <<ProtoStart(FIELD_ID_DATA),
      ProtoStart(FIELD_ID_AGGREGATED_ATOM),
      ProtoStart(FIELD_ID_ATOM)>>
    \o writeFieldValueTreeToStream(atomDimensionKey.tag, atomDimensionKey.values)
    \o <<ProtoEnd(FIELD_ID_ATOM)>>
    \o WriteTimestamps(elapsedTimestampsNs)
    \o <<ProtoEnd(FIELD_ID_AGGREGATED_ATOM), ProtoEnd(FIELD_ID_DATA)>>

RECURSIVE WriteAggregatedAtoms(_, _)
WriteAggregatedAtoms(m, order) ==
    IF order = <<>> THEN <<>>
    ELSE AggregatedData(Head(order), m[Head(order)])
         \o WriteAggregatedAtoms(m, Tail(order))

ReportHeader(isActive) ==
    <<ProtoInt64(FIELD_ID_ID, mMetricId), ProtoBool(FIELD_ID_IS_ACTIVE, isActive)>>

\* mutant: the emptiness of the buffer is not checked
RawReportUnchecked(proto, isActive) ==
    ReportHeader(isActive)
    \o <<ProtoBytes(FIELD_ID_EVENT_METRICS, serializeProtoLocked(proto))>>

\* mutant: the emptiness of the buffer is checked before the header is written
RawReportSuppressed(proto, isActive) ==
    IF ProtoSize(proto) <= 0
    THEN <<>>
    ELSE ReportHeader(isActive)
         \o <<ProtoBytes(FIELD_ID_EVENT_METRICS, serializeProtoLocked(proto))>>

\* what the dump writes to protoOutput in raw mode
RawReport(proto, isActive) ==
    IF ProtoSize(proto) <= 0
    THEN ReportHeader(isActive)
    ELSE ReportHeader(isActive)
         \o <<ProtoBytes(FIELD_ID_EVENT_METRICS, serializeProtoLocked(proto))>>

\* mutant: the report of an empty map is suppressed as in raw mode
AggregatedReportSuppressed(m, isActive, order) ==
    IF DOMAIN m = {}
    THEN ReportHeader(isActive)
    ELSE ReportHeader(isActive)
         \o <<ProtoStart(FIELD_ID_EVENT_METRICS)>>
         \o WriteAggregatedAtoms(m, order)
         \o <<ProtoEnd(FIELD_ID_EVENT_METRICS)>>

\* what the dump writes to protoOutput with atom aggregation
AggregatedReport(m, isActive, order) ==
    ReportHeader(isActive)
    \o <<ProtoStart(FIELD_ID_EVENT_METRICS)>>
    \o WriteAggregatedAtoms(m, order)
    \o <<ProtoEnd(FIELD_ID_EVENT_METRICS)>>

\* mutant: the buffer is cleared by every dump
EraseProtoAlways(proto, erase_data) == <<>>

\* if (erase_data) mProto->clear(), reached only past the early return
EraseProto(proto, erase_data) ==
    IF ProtoSize(proto) <= 0 THEN proto
    ELSE IF erase_data THEN <<>> ELSE proto

\* mutant: the map is never cleared
EraseAggregatedAtomsNever(m, erase_data) == m

\* if (erase_data) mAggregatedAtoms.clear()
EraseAggregatedAtoms(m, erase_data) == IF erase_data THEN EmptyMap ELSE m

\* mutant: the data is erased before the report is written
DumpOutputAfterErase(erase_data, isActive, order) ==
    IF ~mUseAtomAggregation
    THEN RawReport(EraseProto(mProto, erase_data), isActive)
    ELSE AggregatedReport(EraseAggregatedAtoms(mAggregatedAtoms, erase_data),
                          isActive,
                          IF erase_data THEN <<>> ELSE order)

\* the report is written from the data as it is before the erasure
DumpOutput(erase_data, isActive, order) ==
    IF ~mUseAtomAggregation
    THEN RawReport(mProto, isActive)
    ELSE AggregatedReport(mAggregatedAtoms, isActive, order)

\* the last call was a dump that did not erase: nothing was written since
FollowsDump == lastCall.op = "onDumpReport" /\ ~lastCall.erase

\* the orders this dump can iterate the map in: the order of an unordered map
\* is unspecified, but the same as long as the map is not modified
DumpOrders ==
    IF FollowsDump THEN {lastCall.order} ELSE IterationOrders(mAggregatedAtoms)

onDumpReportLocked(erase_data, isActive, order) ==
    /\ lastCall' = [Call("onDumpReport", NoEvent, FALSE, erase_data,
                         DumpOutput(erase_data, isActive, order), TRUE)
                       EXCEPT !.isActive = isActive,
                              !.order = order,
                              !.afterDump = tracing /\ FollowsDump]
    /\ IF ~mUseAtomAggregation
       THEN /\ mProto' = EraseProto(mProto, erase_data)
            /\ UNCHANGED mAggregatedAtoms
       ELSE /\ mAggregatedAtoms' = EraseAggregatedAtoms(mAggregatedAtoms, erase_data)
            /\ UNCHANGED mProto
    /\ accepted' = IF erase_data THEN <<>> ELSE accepted
    /\ eraseDumps' = IF ~erase_data THEN 0
                     ELSE IF eraseDumps < 2 THEN eraseDumps + 1 ELSE 2
    /\ UNCHANGED <<eventFeed, tracing, mUseAtomAggregation, mCondition, mConditionTrackerIndex,
                   bucketDropped, dropCalls>>

OnDumpReport ==
    \E erase_data \in BOOLEAN, isActive \in BOOLEAN, order \in DumpOrders :
        onDumpReportLocked(erase_data, isActive, order)

(***************************************************************************)
(* dropDataLocked, clearPastBucketsLocked                                  *)
(***************************************************************************)
noteBucketDropped(count) == count + 1

\* mutant: the dropped bucket is not noted
dropDataLockedUnnoted ==
    /\ mProto' = <<>>
    /\ mAggregatedAtoms' = EmptyMap
    /\ accepted' = <<>>
    /\ dropCalls' = dropCalls + 1
    /\ eraseDumps' = 0
    /\ lastCall' = Call("dropData", NoEvent, FALSE, FALSE, <<>>, TRUE)
    /\ UNCHANGED <<eventFeed, tracing, mUseAtomAggregation, mCondition, mConditionTrackerIndex,
                   bucketDropped>>

dropDataLocked ==
    /\ mProto' = <<>>
    /\ mAggregatedAtoms' = EmptyMap
    /\ bucketDropped' = noteBucketDropped(bucketDropped)
    /\ accepted' = <<>>
    /\ dropCalls' = dropCalls + 1
    /\ eraseDumps' = 0
    /\ lastCall' = Call("dropData", NoEvent, FALSE, FALSE, <<>>, TRUE)
    /\ UNCHANGED <<eventFeed, tracing, mUseAtomAggregation, mCondition, mConditionTrackerIndex>>

DropData ==
    /\ dropCalls < MaxDrops
    /\ dropDataLocked

\* mutant: only the pending buffer is cleared
clearPastBucketsLockedKeepingMap ==
    /\ mProto' = <<>>
    /\ accepted' = <<>>
    /\ eraseDumps' = 0
    /\ lastCall' = Call("clearPastBuckets", NoEvent, FALSE, FALSE, <<>>, TRUE)
    /\ UNCHANGED <<eventFeed, tracing, mUseAtomAggregation, mAggregatedAtoms, mCondition,
                   mConditionTrackerIndex, bucketDropped, dropCalls>>

clearPastBucketsLocked ==
    /\ mProto' = <<>>
    /\ mAggregatedAtoms' = EmptyMap
    /\ accepted' = <<>>
    /\ eraseDumps' = 0
    /\ lastCall' = Call("clearPastBuckets", NoEvent, FALSE, FALSE, <<>>, TRUE)
    /\ UNCHANGED <<eventFeed, tracing, mUseAtomAggregation, mCondition, mConditionTrackerIndex,
                   bucketDropped, dropCalls>>

ClearPastBuckets == clearPastBucketsLocked

(***************************************************************************)
(* onConditionChangedLocked, onSlicedConditionMayChangeLocked              *)
(***************************************************************************)
\* mutant: the store is cleared when the condition stops being met
onConditionChangedLockedClearing(conditionMet) ==
    /\ mCondition' = IF conditionMet THEN "kTrue" ELSE "kFalse"
    /\ mProto' = IF conditionMet THEN mProto ELSE <<>>
    /\ mAggregatedAtoms' = IF conditionMet THEN mAggregatedAtoms ELSE EmptyMap
    /\ accepted' = IF conditionMet THEN accepted ELSE <<>>
    /\ eraseDumps' = 0
    /\ lastCall' = Call("onConditionChanged", NoEvent, conditionMet, FALSE, <<>>, TRUE)
    /\ UNCHANGED <<eventFeed, tracing, mUseAtomAggregation, mConditionTrackerIndex,
                   bucketDropped, dropCalls>>

onConditionChangedLocked(conditionMet) ==
    /\ mCondition' = IF conditionMet THEN "kTrue" ELSE "kFalse"
    /\ eraseDumps' = 0
    /\ lastCall' = Call("onConditionChanged", NoEvent, conditionMet, FALSE, <<>>, TRUE)
    /\ UNCHANGED <<eventFeed, tracing, mUseAtomAggregation, mProto, mAggregatedAtoms,
                   mConditionTrackerIndex, bucketDropped, accepted, dropCalls>>

OnConditionChanged ==
    \E conditionMet \in BOOLEAN : onConditionChangedLocked(conditionMet)

onSlicedConditionMayChangeLocked(overallCondition) ==
    /\ eraseDumps' = 0
    /\ lastCall' = Call("onSlicedConditionMayChange", NoEvent, FALSE, FALSE,
                        <<>>, TRUE)
    /\ UNCHANGED <<eventFeed, tracing, mUseAtomAggregation, mProto, mAggregatedAtoms, mCondition,
                   mConditionTrackerIndex, bucketDropped, accepted, dropCalls>>

OnSlicedConditionMayChange ==
    \E overallCondition \in BOOLEAN :
        onSlicedConditionMayChangeLocked(overallCondition)

(***************************************************************************)
(* onConfigUpdatedLocked                                                   *)
(***************************************************************************)
\* baseUpdated:    MetricProducer::onConfigUpdatedLocked succeeded
\* matcherIndex:   index metric.what() resolves to, -1 when it does not
\* has_condition:  the metric names a condition
\* conditionIndex: index metric.condition() resolves to, -1 when it does not
\* mutant: a condition that does not resolve is not reported
onConfigUpdatedResultOfMatcher(baseUpdated, matcherIndex, has_condition, conditionIndex) ==
    IF ~baseUpdated THEN FALSE
    ELSE IF matcherIndex < 0 THEN FALSE
    ELSE TRUE

onConfigUpdatedResult(baseUpdated, matcherIndex, has_condition, conditionIndex) ==
    IF ~baseUpdated THEN FALSE
    ELSE IF matcherIndex < 0 THEN FALSE
    ELSE IF has_condition /\ conditionIndex < 0 THEN FALSE
    ELSE TRUE

\* the steps the update attempts, in their order, each with its outcome
onConfigUpdatedSteps(baseUpdated, matcherIndex, has_condition, conditionIndex) ==
    <<[step |-> "MetricProducer::onConfigUpdatedLocked", ok |-> baseUpdated]>>
    \o (IF ~baseUpdated THEN <<>>
        ELSE <<[step |-> "handleMetricWithAtomMatchingTrackers",
                ok |-> matcherIndex >= 0]>>
             \o (IF matcherIndex < 0 \/ ~has_condition THEN <<>>
                 ELSE <<[step |-> "handleMetricWithConditions",
                         ok |-> conditionIndex >= 0]>>))

onConfigUpdatedLocked(baseUpdated, matcherIndex, has_condition, conditionIndex) ==
    /\ eraseDumps' = 0
    /\ lastCall' =
          [Call("onConfigUpdated", NoEvent, FALSE, FALSE, <<>>,
                onConfigUpdatedResult(baseUpdated, matcherIndex,
                                      has_condition, conditionIndex))
              EXCEPT !.hasCondition = tracing /\ has_condition,
                     !.steps = IF tracing
                               THEN onConfigUpdatedSteps(baseUpdated, matcherIndex,
                                                         has_condition, conditionIndex)
                               ELSE <<>>]
    /\ mConditionTrackerIndex' =
          IF baseUpdated /\ matcherIndex >= 0 /\ has_condition /\ conditionIndex >= 0
          THEN conditionIndex
          ELSE mConditionTrackerIndex
    /\ UNCHANGED <<eventFeed, tracing, mUseAtomAggregation, mProto, mAggregatedAtoms, mCondition,
                   bucketDropped, accepted, dropCalls>>

OnConfigUpdated ==
    \E baseUpdated \in BOOLEAN, matcherIndex \in {-1, 0}, has_condition \in BOOLEAN,
       conditionIndex \in {-1} \cup ConditionIndices :
        onConfigUpdatedLocked(baseUpdated, matcherIndex, has_condition, conditionIndex)

Next ==
    \/ OnMatchedLogEvent
    \/ OnDumpReport
    \/ DropData
    \/ ClearPastBuckets
    \/ OnConditionChanged
    \/ OnSlicedConditionMayChange
    \/ OnConfigUpdated

Spec == Init /\ [][Next]_vars

\* the same producer, fed with LogEventsNoValues
SpecNoValues == InitNoValues /\ [][Next]_vars

\* the same producer, fed with LogEventsTraced, each call recorded in full
SpecTraced == InitTraced /\ [][Next]_vars
(***************************************************************************)
(* Reading a report back.                                                  *)
(***************************************************************************)
\* the fields of a stream: scalars, and messages from start to end
RECURSIVE SplitFields(_, _, _, _)
SplitFields(p, i, depth, field) ==
    IF i > Len(p)
    THEN IF field = <<>> THEN <<>> ELSE <<field>>
    ELSE LET d == CASE p[i].k = "start" -> depth + 1
                    [] p[i].k = "end" -> depth - 1
                    [] OTHER -> depth
         IN IF d <= 0
            THEN <<Append(field, p[i])>> \o SplitFields(p, i + 1, 0, <<>>)
            ELSE SplitFields(p, i + 1, d, Append(field, p[i]))

Fields(p) == SplitFields(p, 1, 0, <<>>)

IsEventMetrics(f) ==
    /\ f[1].id = FIELD_ID_EVENT_METRICS
    /\ f[1].k \in {"start", "bytes"}

EventMetricsFields(out) == SelectSeq(Fields(out), IsEventMetrics)

FieldBody(f) ==
    IF f[1].k = "bytes" THEN f[1].sub ELSE SubSeq(f, 2, Len(f) - 1)

\* the fields inside the eventMetrics field of a report, none when it has no such field
ReportedData(out) ==
    LET em == EventMetricsFields(out)
    IN IF em = <<>> THEN <<>> ELSE Fields(FieldBody(em[1]))

IsString(t) == t.k = "string"
IsInt64(t) == t.k = "int64"

StringsOf(f) ==
    LET sel == SelectSeq(f, IsString) IN [i \in 1..Len(sel) |-> sel[i].str]

Int64sOf(f) ==
    LET sel == SelectSeq(f, IsInt64) IN [i \in 1..Len(sel) |-> sel[i].num]

HasIdScalar(out) ==
    \E i \in 1..Len(Fields(out)) :
        Fields(out)[i] = <<ProtoInt64(FIELD_ID_ID, mMetricId)>>

HasIsActiveScalar(out) ==
    \E i \in 1..Len(Fields(out)), b \in BOOLEAN :
        Fields(out)[i] = <<ProtoBool(FIELD_ID_IS_ACTIVE, b)>>

\* a "data" field of raw mode that carries the timestamp and the atom of event
CarriesEvent(f, event) ==
    /\ Len(f) >= 7
    /\ f[1] = ProtoStart(FIELD_ID_DATA)
    /\ f[2] = ProtoInt64(FIELD_ID_ELAPSED_TIMESTAMP_NANOS,
                         truncateTimestampIfNecessary(event))
    /\ f[3] = ProtoStart(FIELD_ID_ATOMS)
    /\ f[4] = ProtoStart(event.tag)
    /\ StringsOf(f) = event.values
    /\ Int64sOf(f) = <<truncateTimestampIfNecessary(event)>>
    /\ f[Len(f)] = ProtoEnd(FIELD_ID_DATA)

Dumped == lastCall.op = "onDumpReport"
\* the byte size as the last call found it
ByteSizeBefore == byteSizeOf(lastCall.before.proto, lastCall.before.atoms)

\* the last call left the buffer, the map and the byte size as it found them
StoreUnchanged ==
    /\ mProto = lastCall.before.proto
    /\ mAggregatedAtoms = lastCall.before.atoms
    /\ byteSizeLocked = ByteSizeBefore
StoreEmpty == mProto = <<>> /\ mAggregatedAtoms = EmptyMap

(***************************************************************************)
(* C1. Gate correctness: in both modes, a matched event delivered with     *)
(* condition false leaves the pending buffer, the map of aggregated atoms  *)
(* and the reported byte size as they were.                                *)
(***************************************************************************)
GateCorrectness ==
    (lastCall.op = "onMatchedLogEvent" /\ ~lastCall.condition) => StoreUnchanged

\* an event was rejected while the aggregation store held two events
GateCorrectnessWitness ==
    /\ lastCall.op = "onMatchedLogEvent"
    /\ ~lastCall.condition
    /\ mUseAtomAggregation
    /\ Len(accepted) = 2
    /\ Cardinality(DOMAIN mAggregatedAtoms) = 2

(***************************************************************************)
(* C2. Raw-mode ordering: in raw mode a dump writes one "data" field per   *)
(* event accepted since the buffer was last emptied, in the order of       *)
(* acceptance, the i-th carrying the truncated timestamp and the atom of   *)
(* the i-th accepted event.                                                *)
(***************************************************************************)
RawOrdering ==
    [][ (lastCall'.op = "onDumpReport" /\ ~mUseAtomAggregation)
            => \E data \in {ReportedData(lastCall'.out)} :
                  /\ Len(data) = Len(accepted)
                  /\ \A i \in 1..Len(accepted) :
                        \E f \in {data[i]} : CarriesEvent(f, accepted[i]) ]_vars

\* three events, one with a truncated timestamp, accepted and then dumped in raw mode
RawOrderingWitness ==
    /\ Dumped
    /\ ~mUseAtomAggregation
    /\ ~lastCall.erase
    /\ Len(accepted) = 3
    /\ accepted[1].ts > accepted[2].ts
    /\ accepted[3].truncate
    /\ Len(ReportedData(lastCall.out)) = 3

\* key is the atom type and the field values of event
SameAtom(key, event) == key.tag = event.tag /\ key.values = event.values

RECURSIVE TimestampsOf(_, _)
TimestampsOf(events, key) ==
    IF events = <<>> THEN <<>>
    ELSE (IF SameAtom(key, Head(events))
          THEN <<truncateTimestampIfNecessary(Head(events))>>
          ELSE <<>>)
         \o TimestampsOf(Tail(events), key)

(***************************************************************************)
(* C3. Grouped-mode merging: with atom aggregation, the accepted events of *)
(* one atom type and the same field values share one map entry, whose      *)
(* sequence lists their timestamps in the order of acceptance; events that *)
(* differ in the atom type or in a field value are in different entries.   *)
(***************************************************************************)
GroupedMerging ==
    mUseAtomAggregation =>
        /\ \A i \in 1..Len(accepted) :
              Cardinality({k \in DOMAIN mAggregatedAtoms : SameAtom(k, accepted[i])}) = 1
        /\ \A k \in DOMAIN mAggregatedAtoms :
              /\ mAggregatedAtoms[k] # <<>>
              /\ mAggregatedAtoms[k] = TimestampsOf(accepted, k)

\* A (atom 5, "x") at 100, A again at 200, B (atom 5, "y") at 150
GroupedMergingWitness ==
    /\ mUseAtomAggregation
    /\ accepted = <<LogEvent(5, <<"x">>, 100, FALSE),
                    LogEvent(5, <<"x">>, 200, FALSE),
                    LogEvent(5, <<"y">>, 150, FALSE)>>
    /\ Cardinality(DOMAIN mAggregatedAtoms) = 2
    /\ mAggregatedAtoms[[tag |-> 5, values |-> <<"x">>]] = <<100, 200>>
    /\ mAggregatedAtoms[[tag |-> 5, values |-> <<"y">>]] = <<150>>

(***************************************************************************)
(* C4. Empty-raw suppression: in raw mode a dump made while the pending    *)
(* buffer is empty writes the id and the isActive scalar and no            *)
(* eventMetrics field; a dump made while it holds an event writes an       *)
(* eventMetrics field, so the two reports differ.                          *)
(***************************************************************************)
EmptyRawSuppression ==
    (Dumped /\ ~mUseAtomAggregation)
        => /\ HasIdScalar(lastCall.out)
           /\ HasIsActiveScalar(lastCall.out)
           /\ (lastCall.before.proto = <<>>) <=> (EventMetricsFields(lastCall.out) = <<>>)

\* a dump of the empty buffer that does not erase
EmptyRawSuppressionWitness ==
    /\ Dumped
    /\ ~mUseAtomAggregation
    /\ ~lastCall.erase
    /\ mProto = <<>>
    /\ EventMetricsFields(lastCall.out) = <<>>

(***************************************************************************)
(* C5. In raw mode a dump made while the pending buffer is empty returns   *)
(* at once. As claimed, it appends nothing to the output of the caller     *)
(* (RawEmptyDumpWritesNothing). As amended, it appends the id and the      *)
(* isActive scalar, and nothing else, and leaves the buffer as it was      *)
(* (RawEmptyDumpWritesHeaderOnly).                                         *)
(***************************************************************************)
RawEmptyDumpWritesNothing ==
    (Dumped /\ ~mUseAtomAggregation /\ lastCall.before.proto = <<>>)
        => lastCall.out = <<>>

RawEmptyDumpWritesHeaderOnly ==
    (Dumped /\ ~mUseAtomAggregation /\ lastCall.before.proto = <<>>)
        => /\ Len(lastCall.out) = 2
           /\ lastCall.out[1] = ProtoInt64(FIELD_ID_ID, mMetricId)
           /\ lastCall.out[2] \in {ProtoBool(FIELD_ID_IS_ACTIVE, b) : b \in BOOLEAN}
           /\ StoreUnchanged

\* an erasing dump of the buffer an erasing dump has just emptied
RawEmptyDumpWitness ==
    /\ Dumped
    /\ ~mUseAtomAggregation
    /\ lastCall.erase
    /\ eraseDumps = 2
    /\ Len(lastCall.out) = 2
\* a "data" field with atom aggregation: the atom of key, then the timestamps
CarriesEntry(f, key, timestamps) ==
    LET n == Len(key.values)
        t == Len(timestamps)
    IN /\ Len(f) = 8 + n + t
       /\ f[1] = ProtoStart(FIELD_ID_DATA)
       /\ f[2] = ProtoStart(FIELD_ID_AGGREGATED_ATOM)
       /\ f[3] = ProtoStart(FIELD_ID_ATOM)
       /\ f[4] = ProtoStart(key.tag)
       /\ StringsOf(SubSeq(f, 5, 4 + n)) = key.values
       /\ f[5 + n] = ProtoEnd(key.tag)
       /\ f[6 + n] = ProtoEnd(FIELD_ID_ATOM)
       /\ \A i \in 1..t :
             f[6 + n + i] = ProtoInt64(FIELD_ID_ATOM_TIMESTAMPS, timestamps[i])
       /\ f[7 + n + t] = ProtoEnd(FIELD_ID_AGGREGATED_ATOM)
       /\ f[8 + n + t] = ProtoEnd(FIELD_ID_DATA)

\* data holds one field per entry of m
CarriesEntries(data, m) ==
    /\ Len(data) = Cardinality(DOMAIN m)
    /\ \A k \in DOMAIN m :
          \E i \in 1..Len(data) : \E f \in {data[i]} : CarriesEntry(f, k, m[k])

(***************************************************************************)
(* C6. With atom aggregation every dump, also of the empty map, writes the *)
(* id scalar, the isActive scalar and one eventMetrics message, opened and *)
(* closed, which holds one "data" message per map entry: the atom of the   *)
(* key and then the timestamps of the entry in their order.                *)
(***************************************************************************)
GroupedDumpAlwaysWritten ==
    (Dumped /\ mUseAtomAggregation)
        => \E fields \in {Fields(lastCall.out)} :
              /\ Len(fields) = 3
              /\ fields[1] = <<ProtoInt64(FIELD_ID_ID, mMetricId)>>
              /\ \E b \in BOOLEAN : fields[2] = <<ProtoBool(FIELD_ID_IS_ACTIVE, b)>>
              /\ Head(fields[3]) = ProtoStart(FIELD_ID_EVENT_METRICS)
              /\ fields[3][Len(fields[3])] = ProtoEnd(FIELD_ID_EVENT_METRICS)
              /\ \E data \in {Fields(FieldBody(fields[3]))} :
                    CarriesEntries(data, lastCall.before.atoms)

\* a dump of the empty map: the header and an empty eventMetrics message
GroupedDumpAlwaysWrittenWitness ==
    /\ Dumped
    /\ mUseAtomAggregation
    /\ ~lastCall.erase
    /\ mAggregatedAtoms = EmptyMap
    /\ Len(lastCall.out) = 4

(***************************************************************************)
(* C7. Erase idempotence: in both modes an erasing dump leaves the buffer  *)
(* and the map empty, so an erasing dump that follows an erasing dump at   *)
(* once writes no "data" field.                                            *)
(***************************************************************************)
EraseIdempotence ==
    /\ eraseDumps >= 1 => (Dumped /\ lastCall.erase /\ StoreEmpty)
    /\ eraseDumps = 2 => ReportedData(lastCall.out) = <<>>

\* the second of two erasing dumps in a row, with atom aggregation
EraseIdempotenceWitness ==
    /\ eraseDumps = 2
    /\ mUseAtomAggregation
    /\ Len(lastCall.out) = 4

(***************************************************************************)
(* C8. Drop accounting: dropData empties the store and adds exactly 1 to   *)
(* the count of dropped buckets of the metric; clearPastBuckets empties    *)
(* the store and leaves the count; no other call changes the count, which  *)
(* so equals the number of dropData calls and never decreases.             *)
(***************************************************************************)
DropAccounting ==
    /\ [](bucketDropped = dropCalls)
    /\ [][ /\ bucketDropped' >= bucketDropped
           /\ lastCall'.op = "dropData"
                 => (mProto' = <<>> /\ mAggregatedAtoms' = EmptyMap
                     /\ bucketDropped' = bucketDropped + 1)
           /\ lastCall'.op = "clearPastBuckets"
                 => (mProto' = <<>> /\ mAggregatedAtoms' = EmptyMap
                     /\ bucketDropped' = bucketDropped)
           /\ lastCall'.op # "dropData" => bucketDropped' = bucketDropped ]_vars

\* the second dropData call
DropAccountingWitness ==
    /\ lastCall.op = "dropData"
    /\ dropCalls = 2
    /\ bucketDropped = 2

(***************************************************************************)
(* C9. Byte-size monotonicity: in both modes the byte size after an        *)
(* accepted event is not below the one before, and is above it unless the  *)
(* event has no field values and its key is in the map already; the byte   *)
(* size is 0 after clearPastBuckets, dropData and an erasing dump.         *)
(***************************************************************************)
ByteSizeMonotonicity ==
    /\ (lastCall.op = "onMatchedLogEvent" /\ lastCall.condition)
          => /\ byteSizeLocked >= ByteSizeBefore
             /\ \/ byteSizeLocked > ByteSizeBefore
                \/ /\ mUseAtomAggregation
                   /\ lastCall.event.values = <<>>
                   /\ \E k \in DOMAIN lastCall.before.atoms : SameAtom(k, lastCall.event)
    /\ (\/ lastCall.op \in {"clearPastBuckets", "dropData"}
        \/ Dumped /\ lastCall.erase)
          => byteSizeLocked = 0

\* with atom aggregation, the second event of an atom without field values was
\* accepted: the byte size has risen from 8 to 16
ByteSizeMonotonicityWitness ==
    /\ lastCall.op = "onMatchedLogEvent"
    /\ lastCall.condition
    /\ lastCall.event.values = <<>>
    /\ mUseAtomAggregation
    /\ Len(accepted) = 2
    /\ Cardinality(DOMAIN mAggregatedAtoms) = 1
    /\ ByteSizeBefore = SizeofInt64
    /\ byteSizeLocked = 2 * SizeofInt64

(***************************************************************************)
(* C10. Erase is conditional and last: a dump clears the buffer or the map *)
(* only when erase_data is true, and the report it writes holds the data   *)
(* as it was before the clearing; a dump with erase_data false leaves the  *)
(* buffer, the map and the byte size as they were.                         *)
(***************************************************************************)
EraseConditionalAndLast ==
    Dumped
        => /\ ~lastCall.erase => StoreUnchanged
           /\ (mProto # lastCall.before.proto \/ mAggregatedAtoms # lastCall.before.atoms)
                 => (lastCall.erase /\ StoreEmpty)
           /\ (~mUseAtomAggregation /\ lastCall.before.proto # <<>>)
                 => \E em \in {EventMetricsFields(lastCall.out)} :
                       Len(em) = 1 /\ FieldBody(em[1]) = lastCall.before.proto
           /\ mUseAtomAggregation
                 => \E data \in {ReportedData(lastCall.out)} :
                       CarriesEntries(data, lastCall.before.atoms)

\* an erasing dump in raw mode that reported two events and emptied the buffer
EraseConditionalAndLastWitness ==
    /\ Dumped
    /\ lastCall.erase
    /\ ~mUseAtomAggregation
    /\ Len(ReportedData(lastCall.out)) = 2
    /\ mProto = <<>>

\* the lifecycle state of a store: empty, or accumulating
LifecycleState(proto, atoms) ==
    IF proto = <<>> /\ atoms = EmptyMap THEN "empty" ELSE "accumulating"

Accepted == lastCall.op = "onMatchedLogEvent" /\ lastCall.condition
Rejected == lastCall.op = "onMatchedLogEvent" /\ ~lastCall.condition

(***************************************************************************)
(* C11. Lifecycle: the producer starts empty; it is accumulating exactly   *)
(* when an event has been accepted since the construction or the last      *)
(* erasing dump, dropData or clearPastBuckets; each of these three calls   *)
(* leads to empty from either state; a rejected event and a dump that does *)
(* not erase leave the state as it was.                                    *)
(***************************************************************************)
LifecycleStateMachine ==
    \E state \in {LifecycleState(mProto, mAggregatedAtoms)},
       stateBefore \in {LifecycleState(lastCall.before.proto, lastCall.before.atoms)} :
        /\ lastCall.op = "init" => state = "empty"
        /\ state = "accumulating" <=> accepted # <<>>
        /\ Accepted => state = "accumulating"
        /\ (\/ lastCall.op \in {"dropData", "clearPastBuckets"}
            \/ Dumped /\ lastCall.erase) => state = "empty"
        /\ (Rejected \/ (Dumped /\ ~lastCall.erase)) => state = stateBefore

\* clearPastBuckets has led from accumulating to empty, with atom aggregation
LifecycleStateMachineWitness ==
    /\ lastCall.op = "clearPastBuckets"
    /\ mUseAtomAggregation
    /\ LifecycleState(lastCall.before.proto, lastCall.before.atoms) = "accumulating"
    /\ LifecycleState(mProto, mAggregatedAtoms) = "empty"

\* the number of timestamps held by a map
RECURSIVE TotalTimestamps(_, _)
TotalTimestamps(m, keys) ==
    IF keys = {} THEN 0
    ELSE LET k == CHOOSE x \in keys : TRUE
         IN Len(m[k]) + TotalTimestamps(m, keys \ {k})

\* the number of timestamps held by a store
TimestampsStored(proto, atoms) ==
    Len(Int64sOf(proto)) + TotalTimestamps(atoms, DOMAIN atoms)

(***************************************************************************)
(* C12. The condition argument is the sole admission filter: an event      *)
(* delivered with condition true adds exactly one timestamp to the store,  *)
(* whatever isActive, the condition stored by onConditionChanged, the      *)
(* matcher index, the metric dimension key, the condition key and the      *)
(* state primary keys are; the store after the call is determined by the   *)
(* store before it and the event alone, so two runs that differ in those   *)
(* other inputs only end with the same store.                              *)
(***************************************************************************)
SoleAdmissionFilter ==
    Accepted =>
        \E event \in {lastCall.event}, before \in {lastCall.before} :
            /\ TimestampsStored(mProto, mAggregatedAtoms)
                  = TimestampsStored(before.proto, before.atoms) + 1
            /\ ~mUseAtomAggregation =>
                  /\ mProto = before.proto
                                \o RawData(truncateTimestampIfNecessary(event), event)
                  /\ mAggregatedAtoms = before.atoms
            /\ mUseAtomAggregation =>
                  /\ mProto = before.proto
                  /\ DOMAIN mAggregatedAtoms
                        = DOMAIN before.atoms \cup {AtomDimensionKey(event)}
                  /\ \A k \in DOMAIN mAggregatedAtoms :
                        mAggregatedAtoms[k] =
                            (IF k \in DOMAIN before.atoms THEN before.atoms[k] ELSE <<>>)
                            \o (IF k = AtomDimensionKey(event)
                                THEN <<truncateTimestampIfNecessary(event)>>
                                ELSE <<>>)

\* an event was recorded while the metric was inactive and the stored
\* condition false, delivered with the second matcher and sliced keys
SoleAdmissionFilterWitness ==
    /\ Accepted
    /\ ~lastCall.isActive
    /\ mCondition = "kFalse"
    /\ lastCall.args = MatchedArgs(1, "uid", "link", "screen")
    /\ Len(accepted) = 2
    /\ TimestampsStored(mProto, mAggregatedAtoms) = 2

(***************************************************************************)
(* C13. Mode exclusivity: no call changes the mode chosen at construction, *)
(* and in every reachable state the representation that was not chosen is  *)
(* empty: in raw mode the map has no entry, with atom aggregation the      *)
(* pending buffer has no byte.                                             *)
(***************************************************************************)
ModeExclusivity ==
    /\ mUseAtomAggregation = lastCall.before.aggregation
    /\ ~mUseAtomAggregation => DOMAIN mAggregatedAtoms = {}
    /\ mUseAtomAggregation => ProtoSize(mProto) = 0

\* three events are held with atom aggregation after a drop, the buffer is empty
ModeExclusivityWitness ==
    /\ mUseAtomAggregation
    /\ dropCalls >= 1
    /\ Accepted
    /\ TotalTimestamps(mAggregatedAtoms, DOMAIN mAggregatedAtoms) = 3
    /\ mProto = <<>>

\* the steps of a config update, in the order of the code
ConfigUpdateOrder ==
    <<"MetricProducer::onConfigUpdatedLocked",
      "handleMetricWithAtomMatchingTrackers",
      "handleMetricWithConditions">>

(***************************************************************************)
(* C14. onConfigUpdated returns true exactly when the update of the base   *)
(* class succeeds, the matcher of the metric resolves and, if the metric   *)
(* has a condition, the condition resolves; it returns false otherwise.    *)
(* The steps run in this order, the condition is resolved only if the      *)
(* metric has one, and a step that fails is the last one attempted.        *)
(***************************************************************************)
ConfigUpdateResult ==
    lastCall.op = "onConfigUpdated" =>
        \E steps \in {lastCall.steps}, n \in {Len(lastCall.steps)} :
            /\ n \in 1..3
            /\ \A i \in 1..n : steps[i].step = ConfigUpdateOrder[i]
            /\ \A i \in 1..(n - 1) : steps[i].ok
            /\ n = 3 => lastCall.hasCondition
            /\ lastCall.ret <=> /\ n >= 2
                                /\ steps[1].ok
                                /\ steps[2].ok
                                /\ lastCall.hasCondition => (n = 3 /\ steps[3].ok)
            /\ ~lastCall.ret <=> ~steps[n].ok

\* the base class and the matcher were updated, the condition did not resolve
ConfigUpdateResultWitness ==
    /\ lastCall.op = "onConfigUpdated"
    /\ lastCall.hasCondition
    /\ Len(lastCall.steps) = 3
    /\ ~lastCall.steps[3].ok
    /\ ~lastCall.ret
    /\ Len(accepted) = 2

\* the field values of the keys of a map, and the timestamps of its entries
FieldValuesOfKeys(m) ==
    UNION { { <<k, i>> : i \in 1..Len(k.values) } : k \in DOMAIN m }

TimestampsOfEntries(m) ==
    UNION { { <<k, i>> : i \in 1..Len(m[k]) } : k \in DOMAIN m }

\* pending buffers the byte size of a map is asked with
ProbeBuffers == { <<>>, RawData(100, LogEvent(5, <<"x">>, 100, FALSE)) }

(***************************************************************************)
(* C15. Byte size with atom aggregation: in every reachable state it is    *)
(* the sum, over the entries of the map, of the number of field values of  *)
(* the key times sizeof(FieldValue) plus the number of timestamps of the   *)
(* entry times 8, whatever the pending buffer holds.                       *)
(***************************************************************************)
GroupedByteSizeFormula ==
    mUseAtomAggregation =>
        \E size \in { SizeofFieldValue * Cardinality(FieldValuesOfKeys(mAggregatedAtoms))
                         + 8 * Cardinality(TimestampsOfEntries(mAggregatedAtoms)) } :
            /\ byteSizeLocked = size
            /\ \A proto \in ProbeBuffers : byteSizeOf(proto, mAggregatedAtoms) = size

\* two entries of one field value each hold three timestamps: 2 * 40 + 3 * 8
GroupedByteSizeFormulaWitness ==
    /\ mUseAtomAggregation
    /\ Cardinality(DOMAIN mAggregatedAtoms) = 2
    /\ Len(accepted) = 3
    /\ byteSizeLocked = 104

(***************************************************************************)
(* C16. Frame of the updates: onConfigUpdated, whatever it returns,        *)
(* onConditionChanged and onSlicedConditionMayChange leave the pending     *)
(* buffer, the map, the byte size and the count of dropped buckets as they *)
(* were; onSlicedConditionMayChange leaves the whole state of the producer *)
(* as it was.                                                              *)
(***************************************************************************)
FrameOfUpdates ==
    [][ /\ lastCall'.op \in {"onConfigUpdated", "onConditionChanged",
                             "onSlicedConditionMayChange"}
              => /\ UNCHANGED <<mProto, mAggregatedAtoms, bucketDropped>>
                 /\ byteSizeLocked' = byteSizeLocked
        /\ lastCall'.op = "onSlicedConditionMayChange"
              => UNCHANGED <<mUseAtomAggregation, mProto, mAggregatedAtoms,
                             mCondition, mConditionTrackerIndex, bucketDropped>> ]_vars

\* a config update has failed while the store held two events and a bucket
\* had been dropped
FrameOfUpdatesWitness ==
    /\ lastCall.op = "onConfigUpdated"
    /\ ~lastCall.ret
    /\ Len(accepted) = 2
    /\ bucketDropped = 1
    /\ StoreUnchanged
    /\ byteSizeLocked > 0

(***************************************************************************)
(* C17. Conservation with atom aggregation: in every reachable state no    *)
(* entry of the map has an empty sequence of timestamps, and the entries   *)
(* hold as many timestamps in all as events were accepted since the        *)
(* construction or the last dropData, clearPastBuckets or erasing dump:    *)
(* no accepted event is lost or counted twice.                             *)
(***************************************************************************)
GroupedConservation ==
    mUseAtomAggregation =>
        /\ \A k \in DOMAIN mAggregatedAtoms : Len(mAggregatedAtoms[k]) >= 1
        /\ TotalTimestamps(mAggregatedAtoms, DOMAIN mAggregatedAtoms) = Len(accepted)
        /\ Cardinality(DOMAIN mAggregatedAtoms) <= Len(accepted)

\* three events were accepted into two entries, and a dump that does not
\* erase has left them there
GroupedConservationWitness ==
    /\ mUseAtomAggregation
    /\ Dumped
    /\ ~lastCall.erase
    /\ Len(accepted) = 3
    /\ Cardinality(DOMAIN mAggregatedAtoms) = 2
    /\ Cardinality(TimestampsOfEntries(mAggregatedAtoms)) = 3

(***************************************************************************)
(* C18. A dump that does not erase can be repeated: in both modes, a dump  *)
(* that directly follows a dump with erase_data false, with the same value *)
(* of isActive, writes the same output as that dump, whether it erases or  *)
(* not.                                                                    *)
(***************************************************************************)
RepeatableDump ==
    [][ ( /\ lastCall.op = "onDumpReport"
          /\ ~lastCall.erase
          /\ lastCall'.op = "onDumpReport"
          /\ lastCall'.isActive = lastCall.isActive )
            => lastCall'.out = lastCall.out ]_vars

\* with atom aggregation, an erasing dump has followed a dump that did not
\* erase, and has reported the two entries of the map
RepeatableDumpWitness ==
    /\ Dumped
    /\ lastCall.afterDump
    /\ lastCall.erase
    /\ mUseAtomAggregation
    /\ Cardinality(DOMAIN lastCall.before.atoms) = 2
    /\ Len(ReportedData(lastCall.out)) = 2
    /\ mAggregatedAtoms = EmptyMap
====
